---- MODULE Spec2Model ----
(***************************************************************************)
(* Warehouse load engine of the Financial-Data-Pipeline repository:        *)
(* dimension resolvers (src/src/loaders/data_loader.py), fact transformers *)
(* (src/src/transformers/data_transformer.py), the stock validation gate   *)
(* (src/src/utils/validators.py), the batched fact loaders and the         *)
(* pipeline drivers (src/pipeline.py, src/*_etl_pipeline.py), over a       *)
(* relational store with the constraints of src/src/models/*.py.           *)
(***************************************************************************)
EXTENDS Integers, Sequences, FiniteSets, TLC

VARIABLES
    dim,      \* dim[kind]: the committed rows of each dimension table
    fact,     \* the committed rows of the fact table of the asset class under study
    focus,    \* the dimension kind (SpecDim) or asset class (Spec) under study
    call,     \* the dimension-resolver call in progress: its input and its outcome
    run       \* the pipeline run in progress

vars == <<dim, fact, focus, call, run>>

-----------------------------------------------------------------------------
(* Bounds and value domains                                                *)

MaxCands == 2     \* candidates per resolver call
MaxRows == 2      \* raw rows per extracted batch

Null == "null"    \* None / NaN in a text column
NaN == 0          \* None / NaN in a numeric column (an unmapped id, a missing measure)

Kind == {"company", "crypto", "issuer", "bond", "indicator", "exchange", "date", "source"}
NatKeys == {"A", "B"}     \* tickers, symbols, ISINs, indicator codes, names
Val == {"x", "y"}         \* values of a descriptive attribute

-----------------------------------------------------------------------------
(* The dimension tables (src/src/models/dimensions.py)                     *)

\* Descriptive columns of each dimension table; two representative columns
\* per table: one the resolver refreshes and one it writes only on insert,
\* where the table has both sorts.
Cols(kind) ==
    CASE kind = "company"   -> {"company_name", "country"}
      [] kind = "crypto"    -> {"name", "country"}
      [] kind = "issuer"    -> {"issuer_type", "credit_rating"}
      [] kind = "bond"      -> {"bond_type", "description"}
      [] kind = "indicator" -> {"indicator_name", "source"}
      [] kind = "exchange"  -> {"exchange_name"}
      [] kind = "source"    -> {"source_type"}
      [] OTHER              -> {}

\* The columns the resolver assigns in its "found" branch.
UpdColsNone(kind) == {}
UpdCols(kind) ==
    CASE kind = "company"   -> {"company_name", "country"}
      [] kind = "crypto"    -> {"name"}
      [] kind = "issuer"    -> {"issuer_type", "credit_rating"}
      [] kind = "bond"      -> {"bond_type"}
      [] kind = "indicator" -> {"indicator_name"}
      [] OTHER              -> {}

EmptyMap == [k \in {} |-> 0]
Put(m, k, v) == [x \in (DOMAIN m) \cup {k} |-> IF x = k THEN v ELSE m[x]]

SetMax(S) == CHOOSE x \in S : \A y \in S : y <= x

\* autoincrement primary key: a fresh id, larger than every stored one
NextId(table) == IF table = {} THEN 1 ELSE SetMax({r.id : r \in table}) + 1

\* select(Dim).where(Dim.<natural key> == key).scalar_one_or_none()
LookupFirstRow(table, key) == {r \in table : r.id = 1}
Lookup(table, key) == {r \in table : r.nk = key}

\* unique=True, nullable=False on the natural-key column
DimConstraintOk(table, row) ==
    /\ row.nk # Null
    /\ \A r \in table : r.nk # row.nk

\* One iteration of a resolver's loop: look the candidate up; refresh or insert;
\* commit; record the id in the mapping. A rejected insert raises and ends the call.
LoadOne(kind, st, cand) ==
    IF st.raised THEN st
    ELSE LET found == Lookup(st.table, cand.nk) IN
         IF found # {}
         THEN LET r  == CHOOSE r \in found : TRUE
                  r2 == [r EXCEPT !.attrs = [c \in Cols(kind) |->
                            IF c \in UpdCols(kind) THEN cand.attrs[c] ELSE r.attrs[c]]]
              IN [table  |-> (st.table \ {r}) \cup {r2},
                  map    |-> Put(st.map, cand.nk, r.id),
                  raised |-> FALSE]
         ELSE LET r == [id |-> NextId(st.table), nk |-> cand.nk, attrs |-> cand.attrs]
              IN IF DimConstraintOk(st.table, r)
                 THEN [table  |-> st.table \cup {r},
                       map    |-> Put(st.map, cand.nk, r.id),
                       raised |-> FALSE]
                 ELSE [st EXCEPT !.raised = TRUE]

RECURSIVE LoadFrom(_, _, _, _)
LoadFrom(kind, st, cands, i) ==
    IF i > Len(cands) THEN st
    ELSE LoadFrom(kind, LoadOne(kind, st, cands[i]), cands, i + 1)

\* load_companies, load_crypto_assets, load_issuer, load_bonds,
\* load_economic_indicators, load_dates, load_exchanges and (for a single
\* candidate) load_or_get_data_source.
LoadDim(kind, table, cands) ==
    LoadFrom(kind, [table |-> table, map |-> EmptyMap, raised |-> FALSE], cands, 1)

\* df.drop_duplicates(subset=[key]): the first row of each key is kept.
DropDuplicates(cands) ==
    LET keep == {i \in 1..Len(cands) : \A j \in 1..(i - 1) : cands[j].nk # cands[i].nk}
        F[i \in 0..Len(cands)] ==
            IF i = 0 THEN <<>>
            ELSE IF i \in keep THEN Append(F[i - 1], cands[i]) ELSE F[i - 1]
    IN F[Len(cands)]

\* df.dropna(subset=[key])
DropNa(cands) ==
    LET F[i \in 0..Len(cands)] ==
            IF i = 0 THEN <<>>
            ELSE IF cands[i].nk # Null THEN Append(F[i - 1], cands[i]) ELSE F[i - 1]
    IN F[Len(cands)]

\* transform_<kind>_dimension: the handling of the natural key. Only the
\* exchange transformer drops candidates without a key.
TransformDim(kind, cands) ==
    IF kind = "exchange" THEN DropDuplicates(DropNa(cands))
    ELSE IF kind = "source" THEN cands
    ELSE DropDuplicates(cands)

-----------------------------------------------------------------------------
(* SpecDim: the dimension stage of a pipeline, called again and again      *)

\* Natural keys a raw candidate can carry: the extractors can deliver a
\* record without its key for every kind but the date (built from the price
\* rows) and the data source (a constant of the driver).
CandKeys(kind) == IF kind \in {"date", "source"} THEN NatKeys ELSE NatKeys \cup {Null}

\* A candidate's descriptive columns all carry the same value of Val.
Cands(kind) ==
    {[nk |-> k, attrs |-> [c \in Cols(kind) |-> v]] : k \in CandKeys(kind), v \in Val}

CandSeqs(kind) ==
    IF kind = "source" THEN {<<c>> : c \in Cands(kind)}
    ELSE UNION {[1..n -> Cands(kind)] : n \in 0..MaxCands}

NoCall == [active |-> FALSE, before |-> {}, cands |-> <<>>, map |-> EmptyMap,
           raised |-> FALSE]
NoRun ==
    [pc |-> "idle", raw |-> <<>>, info |-> <<>>, rep |-> "ts", bs |-> 1,
     emap |-> EmptyMap, facts |-> <<>>, i |-> 1, loaded |-> 0, atStart |-> {},
     result |-> "none", reload |-> FALSE, fault |-> FALSE,
     report |-> [loaded |-> 0, transformed |-> 0],
          outcomes |-> <<>>, steps |-> <<>>, gate |-> [ran |-> FALSE, valid |-> FALSE,
                                    errors |-> {}, warnings |-> {}]]

InitDim ==
    /\ focus \in Kind
    /\ dim = [k \in Kind |-> {}]
    /\ fact = {}
    /\ call = NoCall
    /\ run = NoRun

\* One dimension stage: transform the raw candidates, then resolve them.
\* call.before is the table as the call found it; call.map is the mapping the
\* call returns, which the caller never receives when the call raised.
ResolveDim ==
    /\ ~call.active
    /\ \E raw \in CandSeqs(focus) :
        LET cands == TransformDim(focus, raw)
            res   == LoadDim(focus, dim[focus], cands)
        IN /\ dim' = [dim EXCEPT ![focus] = res.table]
           /\ call' = [active |-> TRUE, before |-> dim[focus], cands |-> cands,
                       map |-> res.map, raised |-> res.raised]
           /\ UNCHANGED <<fact, focus, run>>

\* The caller is done with the mapping (or has handled the exception).
EndCall ==
    /\ call.active
    /\ call' = NoCall
    /\ UNCHANGED <<dim, fact, focus, run>>

NextDim == ResolveDim \/ EndCall

SpecDim == InitDim /\ [][NextDim]_vars

-----------------------------------------------------------------------------
(* Properties of the dimension stage                                       *)

\* C3 (surrogate-id stability): a resolver call that returns maps every key
\* it resolved to the id of the one stored row of that key; a key that was
\* stored before the call keeps the id it had, and no stored row is lost or
\* renumbered by a call, whether it returns or raises.
C3_IdStability ==
    call.active =>
        /\ \A r \in call.before :
              \E r2 \in dim[focus] : r2.id = r.id /\ r2.nk = r.nk
        /\ \A r1, r2 \in dim[focus] : r1.nk = r2.nk => r1 = r2
        /\ ~call.raised =>
              \A k \in DOMAIN call.map :
                 /\ Cardinality({r \in dim[focus] : r.nk = k}) = 1
                 /\ \A r \in dim[focus] : r.nk = k => call.map[k] = r.id
                 /\ \A r \in call.before : r.nk = k => call.map[k] = r.id

\* A returned call resolved a key that was stored before, next to a new key.
C3_Witness ==
    /\ call.active /\ ~call.raised
    /\ \E k \in DOMAIN call.map : \E r \in call.before : r.nk = k /\ call.map[k] = r.id
    /\ \E k \in DOMAIN call.map : \A r \in call.before : r.nk # k

\* C9 as the specification words it: every resolver of every kind, the
\* data source included, leaves the incoming values in all descriptive
\* columns of a row it found.
C9_AllKindsOverwrite ==
    (call.active /\ ~call.raised) =>
        \A i \in 1..Len(call.cands) :
           (\E r \in call.before : r.nk = call.cands[i].nk) =>
              \A r \in dim[focus] :
                 r.nk = call.cands[i].nk => r.attrs = call.cands[i].attrs

\* C9 (amended): the company and issuer resolvers overwrite every
\* descriptive column of a row they found; the crypto, bond and indicator
\* resolvers overwrite name / bond_type / indicator_name but keep the
\* first-seen country / description / source; the exchange and data-source
\* resolvers keep every first-seen value.
C9_LastWriteWinsWhereRefreshed ==
    (call.active /\ ~call.raised) =>
        \A i \in 1..Len(call.cands) :
           \A old \in call.before :
              old.nk = call.cands[i].nk =>
                 \E r \in dim[focus] :
                    /\ r.nk = old.nk
                    /\ \A c \in DOMAIN r.attrs :
                          r.attrs[c] =
                             IF c \in {"company_name", "country", "issuer_type",
                                       "credit_rating", "name", "bond_type",
                                       "indicator_name"}
                                /\ ~(focus = "crypto" /\ c = "country")
                             THEN call.cands[i].attrs[c]
                             ELSE old.attrs[c]

\* The crypto resolver found a stored asset and was handed different values:
\* the name is the incoming one, the country the first-seen one.
C9_Witness ==
    /\ focus = "crypto" /\ call.active /\ ~call.raised
    /\ \E i \in 1..Len(call.cands) : \E old \in call.before : \E r \in dim[focus] :
          /\ old.nk = call.cands[i].nk /\ r.nk = old.nk
          /\ old.attrs["name"] # call.cands[i].attrs["name"]
          /\ r.attrs["name"] = call.cands[i].attrs["name"]
          /\ r.attrs["country"] = old.attrs["country"]

\* C10 as the specification words it: a candidate without its natural key
\* does not make the resolver raise, and every other candidate of the call
\* is resolved.
C10_MissingKeySkipped ==
    (call.active /\ \E i \in 1..Len(call.cands) : call.cands[i].nk = Null) =>
        /\ ~call.raised
        /\ \A i \in 1..Len(call.cands) :
              call.cands[i].nk # Null => call.cands[i].nk \in DOMAIN call.map

-----------------------------------------------------------------------------
(* The fact tables (src/src/models/facts.py), the fact transformers and    *)
(* the batched fact loaders                                                *)

BatchSizes == {1, 2}      \* batch_size of a fact load
Class == {"stock", "crypto", "bond", "economic"}
Days == {"d1"}            \* calendar days of the raw rows
Meas == {1, 2}            \* values of a measure
ParPrice == 100           \* the bond driver prices every yield row at par

EntityKind(cls) ==
    CASE cls = "stock"    -> "company"
      [] cls = "crypto"   -> "crypto"
      [] cls = "bond"     -> "bond"
      [] cls = "economic" -> "indicator"

SourceName(cls) ==
    CASE cls = "stock"    -> "yahoo_finance"
      [] cls = "crypto"   -> "coingecko"
      [] cls = "bond"     -> "fred_bonds"
      [] cls = "economic" -> "fred_economic"

\* Measure columns of a transformed row.
FactCols(cls) ==
    CASE cls = "stock"    -> {"close_price", "adjusted_close"}
      [] cls = "crypto"   -> {"price", "market_cap"}
      [] cls = "bond"     -> {"price", "yield_percent"}
      [] cls = "economic" -> {"value"}

\* Measure columns named in the transformer's dropna(subset=...).
Required(cls) ==
    CASE cls = "stock"    -> {"close_price"}
      [] cls = "crypto"   -> {"price"}
      [] cls = "bond"     -> {"price", "yield_percent"}
      [] cls = "economic" -> {"value"}

\* The representation of the date column of the raw rows: a pandas Timestamp
\* ("ts", yahoo_finance, fred_bond, economic_indicators), a datetime.date
\* ("date", crypto_gecko) or an ISO string ("str"), which transform_bond_prices
\* provides for next to the Timestamps its extractors deliver.
Reps(cls) ==
    CASE cls = "stock"    -> {"ts"}
      [] cls = "crypto"   -> {"date"}
      [] cls = "bond"     -> {"ts", "str"}
      [] cls = "economic" -> {"ts"}

\* The measure columns of a raw row, renamed to the fact table's columns.
Measures(cls, row) ==
    [c \in FactCols(cls) |-> IF cls = "bond" /\ c = "price" THEN ParPrice ELSE row.m]

\* Series.map(mapping) / mapping.get(key): NaN / None for an absent key
MapKeyOrFirst(map, k) == IF k \in DOMAIN map THEN map[k] ELSE 1
MapKey(map, k) == IF k \in DOMAIN map THEN map[k] ELSE NaN

\* The date join of each transformer. The date mapping is keyed by
\* datetime.date; the bond transformer converts strings only and looks every
\* other value up as it is, and a Timestamp equals no datetime.date key.
DateJoin(cls, rep, dmap, day) ==
    IF cls = "bond" /\ rep = "ts" THEN NaN ELSE MapKey(dmap, day)

\* transform_<class>_prices / transform_economic_data: map the keys, drop the
\* rows with a missing id or a missing required measure. nk and day record
\* the raw row a fact row was made from.
TransformFacts(cls, raw, rep, emap, dmap, src) ==
    LET Row(i) == [e |-> MapKey(emap, raw[i].nk),
                   d |-> DateJoin(cls, rep, dmap, raw[i].day),
                   s |-> src,
                   vals |-> Measures(cls, raw[i]),
                   nk |-> raw[i].nk, day |-> raw[i].day]
        Keep(i) == /\ Row(i).e # NaN
                   /\ Row(i).d # NaN
                   /\ \A c \in Required(cls) : Row(i).vals[c] # NaN
        F[i \in 0..Len(raw)] ==
            IF i = 0 THEN <<>>
            ELSE IF Keep(i) THEN Append(F[i - 1], Row(i)) ELSE F[i - 1]
    IN F[Len(raw)]

\* ---- The data quality validators (src/src/utils/validators.py) ----

Epsilon == 2             \* 0.0001, counted in ticks of 0.00005
Million == 1000000       \* the price above which the gate warns

\* A float64 price: NaN, or usd whole units plus sub ticks, 0 <= sub < SubPerUsd
SubPerUsd == 10000 * Epsilon
P(usd, sub) == [nan |-> FALSE, usd |-> usd, sub |-> sub]
NaNP == [nan |-> TRUE, usd |-> 0, sub |-> 0]
Zero == P(0, 0)

\* a < b on float64: FALSE whenever an operand is NaN
Lt(a, b) ==
    /\ ~a.nan /\ ~b.nan
    /\ (a.usd < b.usd \/ (a.usd = b.usd /\ a.sub < b.sub))
Gt(a, b) == Lt(b, a)

\* a - t and a + t for t ticks, t < SubPerUsd
Minus(a, t) ==
    IF a.nan THEN a
    ELSE IF a.sub >= t THEN P(a.usd, a.sub - t) ELSE P(a.usd - 1, a.sub + SubPerUsd - t)
Plus(a, t) ==
    IF a.nan THEN a
    ELSE IF a.sub + t < SubPerUsd THEN P(a.usd, a.sub + t)
         ELSE P(a.usd + 1, a.sub + t - SubPerUsd)

\* A DataFrame: its columns and its rows, each row a record over the columns.
\* Key columns hold text, every other column holds a price.
TextCols == {"ticker", "date", "symbol", "isin"}
IsNull(c, v) == IF c \in TextCols THEN v = Null ELSE v.nan
Empty(df) == Len(df.rows) = 0 \/ df.cols = {}

Finding(what, col) == [what |-> what, col |-> col]
\* (is_valid, errors) as returned, and the warnings written to the log
Verdict(errors, warnings) ==
    [valid |-> errors = {}, errors |-> errors, warnings |-> warnings]

MissingColumns(df, required) == required \ df.cols

\* df[col].isnull().sum() > 0 for each required column
NullsIgnored(df, required) == {}
NullFindings(df, required) ==
    {Finding("null", c) :
       c \in {c \in required : \E i \in 1..Len(df.rows) : IsNull(c, df.rows[i][c])}}

\* (df[col] < 0).sum() > 0 for each of the columns that is present
NegativeFindings(df, cols) ==
    {Finding("negative", c) :
       c \in {c \in cols \cap df.cols : \E i \in 1..Len(df.rows) : Lt(df.rows[i][c], Zero)}}

\* df.duplicated(subset=key).sum() > 0
DuplicatesIgnored(df, key) == {}
DuplicateFindings(df, key) ==
    IF /\ key \subseteq df.cols
       /\ \E i, j \in 1..Len(df.rows) :
             i < j /\ \A c \in key : df.rows[i][c] = df.rows[j][c]
    THEN {Finding("duplicates", "-")} ELSE {}

StockRequired == {"ticker", "date", "close"}
PriceColumns == {"open", "high", "low", "close", "adj_close"}
OHLC == {"open", "high", "low", "close"}

\* high < low, compared as the gate compares it: strictly, with no tolerance
HighBelowLowNever(row) == FALSE
HighBelowLow(row) == Lt(row.high, row.low)

\* The OHLC error of the gate, looked for only when all four columns are there
OHLCFindings(df) ==
    IF OHLC \subseteq df.cols /\ \E i \in 1..Len(df.rows) : HighBelowLow(df.rows[i])
    THEN {Finding("high_lt_low", "high")} ELSE {}

\* What the gate only logs: a price above 1,000,000, a high below open or
\* close, a low above open or close.
StockWarnings(df) ==
    LET R == {df.rows[i] : i \in 1..Len(df.rows)} IN
    {Finding("large", c) :
       c \in {c \in PriceColumns \cap df.cols : \E r \in R : Gt(r[c], P(Million, 0))}}
    \cup (IF OHLC \subseteq df.cols
          THEN (IF \E r \in R : Lt(r.high, r.open) \/ Lt(r.high, r.close)
                THEN {Finding("high_lt_open_close", "high")} ELSE {})
               \cup
               (IF \E r \in R : Gt(r.low, r.open) \/ Gt(r.low, r.close)
                THEN {Finding("low_gt_open_close", "low")} ELSE {})
          ELSE {})

WarningsAsErrors(df) == StockWarnings(df)
StockErrors(df) ==
    NullFindings(df, StockRequired)
    \cup NegativeFindings(df, PriceColumns)
    \cup NegativeFindings(df, {"volume"})
    \cup OHLCFindings(df)
    \cup DuplicateFindings(df, {"ticker", "date"})

\* validate_stock_prices
ValidateStockPrices(df) ==
    IF MissingColumns(df, StockRequired) # {}
    THEN Verdict({Finding("missing_columns", "-")}, {})
    ELSE IF Empty(df) THEN Verdict({Finding("empty", "-")}, {})
    ELSE Verdict(StockErrors(df), StockWarnings(df))

\* The price frame of the stock extractor, which always carries the columns
\* ticker, date, open, high, low, close and volume: close is the measure of
\* the row, the other price columns and the volume are the row's bar.
ToPrice(m) == IF m = NaN THEN NaNP ELSE P(m, 0)
StockCols == {"ticker", "date", "open", "high", "low", "close", "volume"}
StockFrame(raw) ==
    [cols |-> StockCols,
     rows |-> [i \in 1..Len(raw) |->
                 [ticker |-> raw[i].nk, date |-> raw[i].day,
                  open |-> raw[i].bar.open, high |-> raw[i].bar.high,
                  low |-> raw[i].bar.low, close |-> ToPrice(raw[i].m),
                  volume |-> raw[i].bar.volume]]]

\* A bar with nothing to find: open = high = low = close, one share traded
FlatBar(m) ==
    [open |-> ToPrice(m), high |-> ToPrice(m), low |-> ToPrice(m), volume |-> P(1, 0)]

\* select(Fact).where(entity_id == .., date_id == .., source_id == ..)
LookupFact(table, row) ==
    {r \in table : r.e = row.e /\ r.d = row.d /\ r.s = row.s}

\* The columns the "found" branch assigns: every column of the DataFrame but
\* the three ids (load_economic_data: value).
KeepVals(cls, old, new) == old
MergeVals(cls, old, new) ==
    [c \in DOMAIN old |-> IF c \in FactCols(cls) THEN new[c] ELSE old[c]]

\* records_loaded += 1 in the "absent" branch only
CountedAlways(found) == 1
Counted(found) == IF found = {} THEN 1 ELSE 0

\* One row of a batch in the session: the lookup sees the committed rows only
\* (autoflush=False), a found row is modified in place, an absent one is
\* added to the session as a pending insert. log records the branch taken.
StageRow(cls, table, st, row) ==
    LET found == LookupFact(table, row) IN
    IF found # {}
    THEN LET r   == CHOOSE r \in found : TRUE
             cur == IF r.id \in DOMAIN st.upd THEN st.upd[r.id] ELSE r.vals
         IN [st EXCEPT !.upd = Put(st.upd, r.id, MergeVals(cls, cur, row.vals)),
                       !.n = @ + Counted(found), !.log = Append(@, "updated")]
    ELSE [st EXCEPT !.new = Append(st.new, row), !.n = @ + Counted(found),
                    !.log = Append(@, "inserted")]

RECURSIVE StageRows(_, _, _, _, _, _)
StageRows(cls, table, st, rows, i, last) ==
    IF i > last THEN st
    ELSE StageRows(cls, table, StageRow(cls, table, st, rows[i]), rows, i + 1, last)

\* The table the flush of the session writes: the modified rows and the
\* pending inserts, numbered by the autoincrement key.
Flushed(table, st) ==
    {IF r.id \in DOMAIN st.upd THEN [r EXCEPT !.vals = st.upd[r.id]] ELSE r : r \in table}
    \cup {[id |-> NextId(table) + i - 1, e |-> st.new[i].e, d |-> st.new[i].d,
           s |-> st.new[i].s, vals |-> st.new[i].vals,
           nk |-> st.new[i].nk, day |-> st.new[i].day] : i \in 1..Len(st.new)}

\* NOT NULL and FOREIGN KEY on the three ids, NOT NULL on the required
\* measures, UNIQUE (entity_id, date_id, source_id).
UniqueUnchecked(table) == TRUE
UniqueOk(table) ==
    \A r1, r2 \in table :
       (r1.e = r2.e /\ r1.d = r2.d /\ r1.s = r2.s) => r1 = r2

FactConstraintOk(cls, dims, table) ==
    /\ \A r \in table :
          /\ \E x \in dims[EntityKind(cls)] : x.id = r.e
          /\ \E x \in dims["date"] : x.id = r.d
          /\ \E x \in dims["source"] : x.id = r.s
          /\ \A c \in Required(cls) : r.vals[c] # NaN
    /\ UniqueOk(table)

\* db.commit() of one batch: the flush is persisted as a whole, or a
\* constraint violation or a fault of the database raises and the
\* transaction is rolled back.
PersistAnyway(ok, table, flushed) == flushed
Commit(ok, table, flushed) == IF ok THEN flushed ELSE table

-----------------------------------------------------------------------------
(* Spec: the pipeline drivers (src/pipeline.py, src/crypto_etl_pipeline.py, *)
(* src/bond_etl_pipeline.py, src/economic_etl_pipeline.py), run again and  *)
(* again for one asset class                                               *)

RunVal == "x"                  \* the descriptive values a driver hands to a resolver
Treasury == "treasury"         \* the one issuer of the bond driver
ExchangeCode == "nasdaq"       \* the exchange the company records name

\* The rows of an extraction. Only the stock driver reads the bar.
RawRows == {[nk |-> k, day |-> d, m |-> m, bar |-> FlatBar(m)] :
              k \in NatKeys, d \in Days, m \in Meas \cup {NaN}}
RawSeqs == UNION {[1..n -> RawRows] : n \in 0..MaxRows}

\* The entity metadata the extractor found: it asks for the requested keys in
\* their order and can come back with none, or with the metadata of the first
\* keys only. The bond and economic drivers derive the metadata from the rows
\* themselves.
InfoSeqs == {<<>>, <<"A">>, <<"A", "B">>}
Infos(cls) == IF cls \in {"stock", "crypto"} THEN InfoSeqs ELSE {<<>>}

KeyCands(kind, keys) ==
    [i \in 1..Len(keys) |-> [nk |-> keys[i], attrs |-> [c \in Cols(kind) |-> RunVal]]]

\* The entity candidates of a run: the transformed metadata, or the minimal
\* dimension built from the keys of the rows when there is no metadata.
EntityCands(cls, raw, info) ==
    LET kind == EntityKind(cls) IN
    IF info # <<>> THEN TransformDim(kind, KeyCands(kind, info))
    ELSE DropDuplicates(KeyCands(kind, [i \in 1..Len(raw) |-> raw[i].nk]))

\* transform_date_dimension: one candidate per distinct calendar day
DateCands(raw) ==
    DropDuplicates(KeyCands("date", [i \in 1..Len(raw) |-> raw[i].day]))

Step(kind, cands) == [kind |-> kind, cands |-> cands]

SourceStep(cls) ==
    Step("source", <<[nk |-> SourceName(cls), attrs |-> [c \in Cols("source") |-> "API"]]>>)

\* The resolver calls of each driver's load phase, in their order.
DimSteps(cls, raw, info) ==
    CASE cls = "stock" ->
           <<SourceStep(cls), Step("company", EntityCands(cls, raw, info)),
             Step("date", DateCands(raw))>>
           \o (IF info # <<>>
               THEN <<Step("exchange", TransformDim("exchange",
                         KeyCands("exchange", [i \in 1..Len(info) |-> ExchangeCode])))>>
               ELSE <<>>)
      [] cls = "crypto" ->
           <<SourceStep(cls), Step("date", DateCands(raw)),
             Step("crypto", EntityCands(cls, raw, info))>>
      [] cls = "bond" ->
           <<SourceStep(cls), Step("date", DateCands(raw)),
             Step("issuer", KeyCands("issuer", <<Treasury>>)),
             Step("bond", EntityCands(cls, raw, info))>>
      [] cls = "economic" ->
           <<SourceStep(cls), Step("date", DateCands(raw)),
             Step("indicator", EntityCands(cls, raw, info))>>

RECURSIVE ResolveSteps(_, _, _)
ResolveSteps(st, steps, i) ==
    IF i > Len(steps) \/ st.raised THEN st
    ELSE LET k   == steps[i].kind
             res == LoadDim(k, st.dims[k], steps[i].cands)
         IN ResolveSteps([dims   |-> [st.dims EXCEPT ![k] = res.table],
                          maps   |-> [st.maps EXCEPT ![k] = res.map],
                          raised |-> res.raised], steps, i + 1)

Min(a, b) == IF a < b THEN a ELSE b

Init ==
    /\ focus \in Class
    /\ dim = [k \in Kind |-> {}]
    /\ fact = {}
    /\ call = NoCall
    /\ run = NoRun

\* EXTRACT PHASE: the extractor delivers the rows and the metadata; a run
\* without rows ends at once.
Extract ==
    /\ run.pc = "idle"
    /\ \E raw \in RawSeqs, info \in Infos(focus), rep \in Reps(focus), bs \in BatchSizes :
          run' = [NoRun EXCEPT !.pc = IF raw = <<>> THEN "done" ELSE "extracted",
                               !.result = IF raw = <<>> THEN "no_data" ELSE "none",
                               !.raw = raw, !.info = info, !.rep = rep, !.bs = bs,
                               !.steps = <<"extract">>]
    /\ UNCHANGED <<dim, fact, focus, call>>

\* The gate as the driver runs it: the stock driver validates the extracted
\* frame, the other drivers call no validator.
Gate(cls, raw) ==
    IF cls = "stock"
    THEN LET v == ValidateStockPrices(StockFrame(raw))
         IN [ran |-> TRUE, valid |-> v.valid, errors |-> v.errors, warnings |-> v.warnings]
    ELSE NoRun.gate
GateSteps(cls) == IF cls = "stock" THEN <<"validate">> ELSE <<>>

\* The gate of the stock driver, the dimension resolvers and the fact
\* transformer, up to the call of the fact loader. steps lists what the run
\* has done so far, in its order.
Prepare ==
    /\ run.pc = "extracted"
    /\ LET gate == Gate(focus, run.raw)
           gated == [run EXCEPT !.gate = gate, !.steps = run.steps \o GateSteps(focus)]
       IN
       IF gate.ran /\ ~gate.valid
       THEN /\ run' = [gated EXCEPT !.pc = "done", !.result = "rejected"]
            /\ UNCHANGED dim
       ELSE LET res == ResolveSteps([dims |-> dim, maps |-> [k \in Kind |-> EmptyMap],
                                     raised |-> FALSE],
                                    DimSteps(focus, run.raw, run.info), 1)
                emap == res.maps[EntityKind(focus)]
            IN /\ dim' = res.dims
               /\ run' = IF res.raised
                         THEN [gated EXCEPT !.pc = "done", !.result = "raised",
                                 !.steps = gated.steps \o <<"resolve">>]
                         ELSE [gated EXCEPT !.pc = "loading", !.emap = emap,
                                 !.atStart = fact,
                                 !.steps = gated.steps \o <<"resolve", "transform", "load">>,
                                 !.facts = TransformFacts(focus, run.raw, run.rep, emap,
                                              res.maps["date"],
                                              res.maps["source"][SourceName(focus)])]
    /\ UNCHANGED <<fact, focus, call>>

\* One batch of load_<class>_prices / load_economic_data: stage the rows of
\* the batch, commit. A failed commit ends the load and the run.
LoadBatch ==
    /\ run.pc = "loading"
    /\ run.i <= Len(run.facts)
    /\ \E dbFault \in BOOLEAN :
        LET last    == Min(run.i + run.bs - 1, Len(run.facts))
            st      == StageRows(focus, fact,
                                 [upd |-> EmptyMap, new |-> <<>>, n |-> run.loaded,
                                  log |-> <<>>],
                                 run.facts, run.i, last)
            flushed == Flushed(fact, st)
            ok      == ~dbFault /\ FactConstraintOk(focus, dim, flushed)
        IN /\ fact' = Commit(ok, fact, flushed)
           /\ run' = IF ok
                     THEN [run EXCEPT !.i = last + 1, !.loaded = st.n,
                                      !.outcomes = @ \o st.log]
                     ELSE [run EXCEPT !.pc = "done", !.result = "raised",
                                      !.fault = dbFault]
    /\ UNCHANGED <<dim, focus, call>>

\* The load returns records_loaded; the driver logs it with len(facts).
LoadDone ==
    /\ run.pc = "loading"
    /\ run.i > Len(run.facts)
    /\ run' = [run EXCEPT !.pc = "done", !.result = "ok",
                          !.report = [loaded |-> run.loaded,
                                      transformed |-> Len(run.facts)]]
    /\ UNCHANGED <<dim, fact, focus, call>>

\* The same transformed batch is handed to the loader a second time.
Reload ==
    /\ run.pc = "done" /\ run.result = "ok" /\ ~run.reload
    /\ run' = [run EXCEPT !.pc = "loading", !.reload = TRUE, !.i = 1, !.loaded = 0,
                          !.atStart = fact, !.outcomes = <<>>]
    /\ UNCHANGED <<dim, fact, focus, call>>

\* The run is over; the store stays.
Reset ==
    /\ run.pc = "done"
    /\ run' = NoRun
    /\ UNCHANGED <<dim, fact, focus, call>>

Next == Extract \/ Prepare \/ LoadBatch \/ LoadDone \/ Reload \/ Reset

Spec == Init /\ [][Next]_vars

-----------------------------------------------------------------------------
(* Properties of the pipeline runs                                         *)

\* C1 (fact-load idempotence): when a transformed batch with pairwise
\* distinct composite keys has been loaded and is loaded a second time into
\* the store the first load left, the second load returns 0 and the number
\* of fact rows is the one it found.
C1_ReloadIdempotent ==
    (/\ run.pc = "done" /\ run.reload /\ run.result = "ok"
     /\ \A i, j \in 1..Len(run.facts) :
           LookupFact({run.facts[i]}, run.facts[j]) # {} => i = j)
    => /\ run.report.loaded = 0
       /\ Cardinality(fact) = Cardinality(run.atStart)

\* A second load of a batch of two rows with distinct keys has returned.
C1_Witness ==
    /\ run.pc = "done" /\ run.reload /\ run.result = "ok"
    /\ Len(run.facts) = 2
    /\ run.facts[1].e # run.facts[2].e
    /\ Cardinality(fact) = 2

\* C2 (fact uniqueness): in every reachable store, whatever loads completed
\* or failed before, no two fact rows have the same
\* (entity_id, date_id, source_id).
C2_FactUniqueness ==
    \A r1, r2 \in fact :
       (r1.e = r2.e /\ r1.d = r2.d /\ r1.s = r2.s) => r1 = r2

\* A load of two rows with the same key has failed at its commit, with no
\* fault of the database, over a store that holds that key already or not.
C2_Witness ==
    /\ run.pc = "done" /\ run.result = "raised" /\ ~run.fault
    /\ Len(run.facts) = 2
    /\ run.facts[1].e = run.facts[2].e /\ run.facts[1].d = run.facts[2].d
    /\ fact # {}

\* C4 (referential integrity): every fact row carries the ids of existing
\* entity, date and data-source rows, and these are the rows of the natural
\* keys of the raw row it was made from; no row the loader is handed, and no
\* row inserted by the current load, comes from a raw row whose entity key
\* is absent from the key map.
C4_ReferentialIntegrity ==
    /\ \A r \in fact :
          /\ r.e # NaN /\ r.d # NaN /\ r.s # NaN
          /\ \E x \in dim[EntityKind(focus)] : x.id = r.e /\ x.nk = r.nk
          /\ \E x \in dim["date"] : x.id = r.d /\ x.nk = r.day
          /\ \E x \in dim["source"] : x.id = r.s /\ x.nk = SourceName(focus)
    /\ (run.pc = "loading" \/ run.result = "ok") =>
          /\ \A i \in 1..Len(run.facts) : run.facts[i].nk \in DOMAIN run.emap
          /\ \A r \in fact :
                (\A o \in run.atStart : o.id # r.id) => r.nk \in DOMAIN run.emap

\* A run of two raw rows has completed: the key of one was absent from the
\* key map, the other was inserted.
C4_Witness ==
    /\ run.pc = "done" /\ run.result = "ok" /\ ~run.reload
    /\ Len(run.raw) = 2
    /\ \E i \in 1..2 : run.raw[i].nk \notin DOMAIN run.emap /\ run.raw[i].m # NaN
    /\ \E r \in fact : \A o \in run.atStart : o.id # r.id

\* C5 (upsert update path): after a load that completed, a fact row whose
\* key was in the store when the load began and occurs in the batch is still
\* the only row of its key, has kept its id, carries in every measure column
\* the value of the last batch row of that key, and the rows of such keys
\* are not counted in the returned number.
C5_UpsertLastWriteWins ==
    (run.pc = "done" /\ run.result = "ok") =>
        /\ \A o \in run.atStart :
              LET hits == {i \in 1..Len(run.facts) :
                             LookupFact({o}, run.facts[i]) # {}}
              IN hits # {} =>
                   /\ \E r \in fact :
                         /\ r.id = o.id /\ r.e = o.e /\ r.d = o.d /\ r.s = o.s
                         /\ r.vals = run.facts[SetMax(hits)].vals
                   /\ Cardinality(LookupFact(fact, o)) = 1
        /\ run.report.loaded + Cardinality({i \in 1..Len(run.facts) :
                                     LookupFact(run.atStart, run.facts[i]) # {}})
              <= Len(run.facts)

\* A first load has completed that found a stored row of an incoming key
\* with another value.
C5_Witness ==
    /\ run.pc = "done" /\ run.result = "ok" /\ ~run.reload
    /\ \E o \in run.atStart : \E i \in 1..Len(run.facts) :
          /\ LookupFact({o}, run.facts[i]) # {}
          /\ o.vals # run.facts[i].vals
          /\ \E r \in fact : r.id = o.id /\ r.vals = run.facts[i].vals

\* C6 (returned count): the number a completed load returns is the number
\* of fact rows after the load minus the number before it.
C6_ReturnedCount ==
    (run.pc = "done" /\ run.result = "ok") =>
        run.report.loaded = Cardinality(fact) - Cardinality(run.atStart)

\* A load of two rows has completed: it inserted one and updated one.
C6_Witness ==
    /\ run.pc = "done" /\ run.result = "ok" /\ ~run.reload
    /\ Len(run.facts) = 2 /\ run.report.loaded = 1
    /\ run.atStart # {}
    /\ run.facts[1].e # run.facts[2].e

\* C7 (batch failure): when the commit of a batch fails, the load ends
\* there with the error; the store is the one the batches before it left:
\* each of their rows is stored with the last value they gave its key, the
\* returned-so-far count is the number of rows they added, and every other
\* row is as it was when the load began, so nothing of the failed batch or
\* of a later one is in the store.
C7_BatchFailure ==
    (run.pc = "done" /\ run.result = "raised" /\ run.facts # <<>>) =>
        LET done == 1..(run.i - 1) IN
        /\ run.i <= Len(run.facts)
        /\ \A j \in done :
              LET same == {i \in done : LookupFact({run.facts[j]}, run.facts[i]) # {}}
              IN \E r \in LookupFact(fact, run.facts[j]) :
                    r.vals = run.facts[SetMax(same)].vals
        /\ \A r \in fact :
              \/ r \in run.atStart
              \/ \E j \in done : LookupFact({r}, run.facts[j]) # {}
        /\ \A o \in run.atStart :
              \/ o \in fact
              \/ \E j \in done : LookupFact({o}, run.facts[j]) # {}
        /\ Cardinality(fact) = Cardinality(run.atStart) + run.loaded

\* The second batch of a load failed after the first one had added a row.
C7_Witness ==
    /\ run.pc = "done" /\ run.result = "raised"
    /\ run.i = 2 /\ run.loaded = 1
    /\ Cardinality(fact) = Cardinality(run.atStart) + 1

\* C8 as the specification words it: a first run over N raw rows with
\* pairwise distinct keys, met by no fault of the database, of which m have
\* an entity key without metadata or a missing primary measure, completes,
\* leaves N - m of its rows in the store and lets the caller see that m
\* rows were left out.
C8_PartialBatchResilience ==
    (/\ run.pc = "done" /\ ~run.reload /\ ~run.fault /\ run.raw # <<>>
     /\ \A i, j \in 1..Len(run.raw) : run.raw[i].nk = run.raw[j].nk => i = j)
    => LET known(k) == run.info = <<>> \/ \E i \in 1..Len(run.info) : run.info[i] = k
           bad == {i \in 1..Len(run.raw) :
                     ~known(run.raw[i].nk) \/ run.raw[i].m = NaN}
           good == (1..Len(run.raw)) \ bad
       IN /\ run.result = "ok"
          /\ \A i \in good : \E r \in fact :
                r.nk = run.raw[i].nk /\ r.day = run.raw[i].day
                /\ r.vals = Measures(focus, run.raw[i])
          /\ Len(run.raw) - run.report.transformed = Cardinality(bad)

\* C26 (row state machine): in a run that completes, every raw row has
\* exactly one terminal outcome. A row without a mapped entity or date or
\* without its primary measure is discarded and nothing the run wrote stems
\* from it; every other row is written exactly once, as an insert when its
\* composite key was absent from the store and as an update when it was
\* present. A failed batch ends the run: nothing is retried.
C26_RowStateMachine ==
    LET known(k) == run.info = <<>> \/ \E i \in 1..Len(run.info) : run.info[i] = k
        discarded == {i \in 1..Len(run.raw) :
                        \/ ~known(run.raw[i].nk) \/ run.raw[i].m = NaN
                        \/ (focus = "bond" /\ run.rep = "ts")}
        present(i) ==
            \/ \E r \in run.atStart :
                  r.e = run.facts[i].e /\ r.d = run.facts[i].d /\ r.s = run.facts[i].s
            \/ \E j \in 1..(i - 1) :
                  /\ (j - 1) \div run.bs < (i - 1) \div run.bs
                  /\ run.facts[j].e = run.facts[i].e /\ run.facts[j].d = run.facts[i].d
                  /\ run.facts[j].s = run.facts[i].s
    IN /\ (run.pc = "done" /\ run.result = "ok") =>
            /\ Len(run.outcomes) = Len(run.raw) - Cardinality(discarded)
            /\ Len(run.outcomes) = Len(run.facts)
            /\ \A i \in 1..Len(run.facts) :
                  /\ run.outcomes[i] \in {"inserted", "updated"}
                  /\ run.outcomes[i] = "updated" <=> present(i)
            /\ \A r \in fact \ run.atStart :
                  \E i \in (1..Len(run.raw)) \ discarded :
                     r.nk = run.raw[i].nk /\ r.day = run.raw[i].day
       /\ run.result = "raised" => run.pc = "done"
       /\ Len(run.outcomes) <= Len(run.facts)

\* A run of three outcomes at once: of its raw rows one was discarded, one
\* was inserted and one updated a row of an earlier run.
C26_Witness ==
    /\ run.pc = "done" /\ run.result = "ok" /\ ~run.reload
    /\ Len(run.raw) = 2 /\ run.raw[1].m = NaN
    /\ run.outcomes = <<"updated">>
    /\ run.atStart # {}

\* C29 (repeated key inside one commit batch): a fact load whose batch holds
\* two rows of one composite key that the store does not hold yet, both in
\* the same commit batch and met by no fault of the database, completes
\* without error and leaves exactly one row for the key, with the measures
\* of the later row.
C29_RepeatedKeyInBatch ==
    LET same(a, b) == a.e = b.e /\ a.d = b.d /\ a.s = b.s
    IN (/\ run.pc = "done" /\ ~run.reload /\ ~run.fault
        /\ Len(run.facts) = 2 /\ run.bs = 2
        /\ same(run.facts[1], run.facts[2])
        /\ \A r \in run.atStart : ~same(r, run.facts[1]))
       => /\ run.result = "ok"
          /\ Cardinality({r \in fact : same(r, run.facts[1])}) = 1
          /\ \A r \in fact : same(r, run.facts[1]) => r.vals = run.facts[2].vals

\* C30 (date join is representation-independent): whatever the
\* representation of the raw dates (ISO string, timestamp or date), a raw row
\* with a mapped entity and its primary measure, whose calendar date has a
\* row in the date dimension, is joined to that row's id and is among the
\* transformed rows: it is never dropped as unmapped.
C30_DateJoinAnyRepresentation ==
    (run.pc = "loading" \/ (run.pc = "done" /\ run.result = "ok")) =>
        \A i \in 1..Len(run.raw) :
           (/\ run.raw[i].nk \in DOMAIN run.emap
            /\ run.raw[i].m # NaN
            /\ \E x \in dim["date"] : x.nk = run.raw[i].day)
           => \E j \in 1..Len(run.facts) :
                 /\ run.facts[j].nk = run.raw[i].nk
                 /\ run.facts[j].day = run.raw[i].day
                 /\ \E x \in dim["date"] :
                       x.nk = run.raw[i].day /\ x.id = run.facts[j].d

-----------------------------------------------------------------------------
(* SpecMetrics: the derived metrics of transform_stock_prices             *)
(* (src/src/transformers/data_transformer.py:139-144), applied to one row *)

MaxPrice == 6     \* open and close range over -MaxPrice..MaxPrice

PercentFactor == 100      \* ... / open * 100
RoundDigits == 4          \* .round(4)

\* A float64: a number, NaN, or an infinity. Prices count whole price
\* units; a percentage counts units of 10^-RoundDigits percent.
Num(v) == [kind |-> "num", v |-> v]
NaNF == [kind |-> "nan", v |-> 0]
PosInf == [kind |-> "inf", v |-> 1]
NegInf == [kind |-> "inf", v |-> -1]

RECURSIVE Pow10(_)
Pow10(n) == IF n = 0 THEN 1 ELSE 10 * Pow10(n - 1)

\* n / d rounded to the nearest integer, ties to the even one (numpy.round)
FloorDiv(n, d) == IF d > 0 THEN n \div d ELSE (0 - n) \div (0 - d)
RoundDiv(n, d) ==
    LET num == IF d > 0 THEN n ELSE 0 - n
        den == IF d > 0 THEN d ELSE 0 - d
        q   == num \div den
        r   == num % den
    IN IF 2 * r < den THEN q
       ELSE IF 2 * r > den THEN q + 1
       ELSE IF q % 2 = 0 THEN q ELSE q + 1

\* transformed['close'] - transformed['open']
PriceChange(open, close) ==
    IF open.kind = "nan" \/ close.kind = "nan" THEN NaNF
    ELSE Num(close.v - open.v)

\* ((close - open) / open * 100).round(4): float64 division, which yields an
\* infinity for x / 0 with x # 0 and NaN for 0 / 0, and never raises.
PriceChangePercent(open, close) ==
    IF open.kind = "nan" \/ close.kind = "nan" THEN NaNF
    ELSE IF open.v = 0
         THEN IF close.v = 0 THEN NaNF
              ELSE IF close.v > 0 THEN PosInf ELSE NegInf
         ELSE Num(RoundDiv((close.v - open.v) * PercentFactor * Pow10(RoundDigits),
                           open.v))

DerivedMetrics(row) ==
    [price_change         |-> PriceChange(row.open, row.close),
     price_change_percent |-> PriceChangePercent(row.open, row.close)]

MetricVals == {Num(v) : v \in (0 - MaxPrice)..MaxPrice} \cup {NaNF}

InitMetrics ==
    /\ focus = "stock"
    /\ dim = [k \in Kind |-> {}]
    /\ fact = {}
    /\ call = NoCall
    /\ run = NoRun

\* The transformer derives the metrics of one extracted row.
DeriveMetrics ==
    /\ ~call.active
    /\ \E open \in MetricVals, close \in MetricVals :
          LET row == [open |-> open, close |-> close]
          IN call' = [active |-> TRUE, row |-> row, out |-> DerivedMetrics(row)]
    /\ UNCHANGED <<dim, fact, focus, run>>

NextMetrics == DeriveMetrics \/ EndCall

SpecMetrics == InitMetrics /\ [][NextMetrics]_vars

\* C11 (derived metrics): for a row with close present and open present and
\* not zero, price_change is close - open and price_change_percent is a
\* number that differs from (close - open) / open * 100 by at most half a
\* unit of the fourth decimal place.
C11_DerivedMetrics ==
    (/\ call.active
     /\ call.row.open.kind = "num" /\ call.row.close.kind = "num"
     /\ call.row.open.v # 0)
    => LET o == call.row.open.v
           c == call.row.close.v
           p == call.out.price_change_percent
           err == p.v * o - (c - o) * 1000000
       IN /\ call.out.price_change = [kind |-> "num", v |-> c - o]
          /\ p.kind = "num"
          /\ 2 * (IF err < 0 THEN 0 - err ELSE err) <= (IF o < 0 THEN 0 - o ELSE o)

\* open = 3, close = 5: 66.666...% is rounded up to 66.6667.
C11_Witness ==
    /\ call.active
    /\ call.row.open = [kind |-> "num", v |-> 3]
    /\ call.row.close = [kind |-> "num", v |-> 5]
    /\ call.out.price_change_percent = [kind |-> "num", v |-> 666667]

\* C12 as the specification words it: for a row whose open is zero or
\* missing the derived percentage is null.
C12_ZeroOpenNull ==
    (call.active /\ (call.row.open.kind = "nan" \/ call.row.open.v = 0))
    => call.out.price_change_percent.kind = "nan"

-----------------------------------------------------------------------------
(* SpecGate: one run of the stock driver (src/pipeline.py) on an empty     *)
(* store, the bars of the extracted rows drawn from a grid around the      *)
(* thresholds of the gate                                                  *)

GateLens == {0, 1, 2}

GateBars ==
    [open   : {P(1, 3)},
     high   : {P(1, 0), P(1, 3), P(Million + 1, 0)},
     low    : {P(0 - 1, 0), P(1, 0), P(1, 1), P(1, 3)},
     volume : {P(1, 0), P(0 - 1, 0)}]

GateRows == [nk : NatKeys, day : Days, m : Meas \cup {NaN}, bar : GateBars]
GateSeqs == UNION {[1..n -> GateRows] : n \in GateLens}

InitGate == Init /\ focus = "stock"

GateExtract ==
    /\ run.pc = "idle"
    /\ \E raw \in GateSeqs, bs \in BatchSizes :
          run' = [NoRun EXCEPT !.pc = IF raw = <<>> THEN "done" ELSE "extracted",
                               !.result = IF raw = <<>> THEN "no_data" ELSE "none",
                               !.raw = raw, !.bs = bs, !.steps = <<"extract">>]
    /\ UNCHANGED <<dim, fact, focus, call>>

NextGate == GateExtract \/ Prepare \/ LoadBatch \/ LoadDone

SpecGate == InitGate /\ [][NextGate]_vars

\* C13 (OHLC gate, critical case): once the gate of a stock run has seen a
\* frame with a row whose high is below its low, its verdict is invalid with
\* a finding about high, the run ends rejected and no fact row is persisted.
C13_HighBelowLowRejected ==
    (/\ run.gate.ran
     /\ \E i \in 1..Len(run.raw) : Lt(run.raw[i].bar.high, run.raw[i].bar.low))
    => /\ ~run.gate.valid
       /\ \E f \in run.gate.errors : f.col = "high"
       /\ run.pc = "done" /\ run.result = "rejected"
       /\ fact = {}

\* A frame of two rows whose second row alone has high < low, by more than
\* the tolerance of the audit; the first row has nothing to find.
C13_Witness ==
    /\ run.gate.ran /\ Len(run.raw) = 2
    /\ run.raw[1] = [nk |-> "A", day |-> "d1", m |-> 1,
                     bar |-> [open |-> P(1, 3), high |-> P(1, 3), low |-> P(1, 0),
                              volume |-> P(1, 0)]]
    /\ run.raw[2].nk = "B" /\ run.raw[2].m = 1
    /\ run.raw[2].bar = [open |-> P(1, 3), high |-> P(1, 0), low |-> P(1, 3),
                         volume |-> P(1, 0)]
    /\ run.gate.errors = {[what |-> "high_lt_low", col |-> "high"]}
    /\ run.result = "rejected"

\* C14 (OHLC gate, warning case): when the only anomalies of the frame are
\* a high below open or close, a low above open or close, or a price above
\* 1,000,000, the gate passes with an empty error list and with warnings,
\* the run goes on to the loader, and when the load has ended well every
\* row of the batch is stored. The anomalies are read off the extracted rows.
C14_WarningsOnlyLoads ==
    LET zero == [nan |-> FALSE, usd |-> 0, sub |-> 0]
        million == [nan |-> FALSE, usd |-> 1000000, sub |-> 0]
        Close(r) == [nan |-> FALSE, usd |-> r.m, sub |-> 0]
        ErrorRow(r) ==
            \/ r.nk = Null \/ r.day = Null \/ r.m = NaN
            \/ r.m < 0
            \/ \E c \in {"open", "high", "low", "volume"} : Lt(r.bar[c], zero)
            \/ Lt(r.bar.high, r.bar.low)
        ErrorAnomaly ==
            \/ \E i \in 1..Len(run.raw) : ErrorRow(run.raw[i])
            \/ \E i, j \in 1..Len(run.raw) :
                  i < j /\ run.raw[i].nk = run.raw[j].nk /\ run.raw[i].day = run.raw[j].day
        WarningRow(r) ==
            \/ Lt(r.bar.high, r.bar.open) \/ Lt(r.bar.high, Close(r))
            \/ Lt(r.bar.open, r.bar.low) \/ Lt(Close(r), r.bar.low)
            \/ \E c \in {"open", "high", "low"} : Lt(million, r.bar[c])
            \/ Lt(million, Close(r))
        WarningAnomaly == \E i \in 1..Len(run.raw) : WarningRow(run.raw[i])
    IN
    (run.gate.ran /\ ~ErrorAnomaly /\ WarningAnomaly)
    => /\ run.gate.valid /\ run.gate.errors = {} /\ run.gate.warnings # {}
       /\ run.pc = "loading" \/ (run.pc = "done" /\ (run.result = "ok" \/ run.fault))
       /\ run.result = "ok" =>
             /\ Len(run.facts) = Len(run.raw)
             /\ \A i \in 1..Len(run.raw) :
                   \E r \in fact : r.nk = run.raw[i].nk /\ r.day = run.raw[i].day
                                    /\ r.vals = Measures("stock", run.raw[i])

\* open = 1.00015, high = 1.0: the high lies below the open; the row is
\* stored all the same.
C14_Witness ==
    /\ run.gate.ran /\ Len(run.raw) = 1
    /\ run.raw[1].m = 1
    /\ run.raw[1].bar = [open |-> P(1, 3), high |-> P(1, 0), low |-> P(1, 0),
                         volume |-> P(1, 0)]
    /\ run.gate.warnings = {[what |-> "high_lt_open_close", col |-> "high"]}
    /\ run.pc = "done" /\ run.result = "ok"
    /\ fact # {}

\* ---- The warehouse audit (src/validate_data_quality.py) ----

\* validate_ohlc_relationships: the two comparisons of the audit, each with
\* the tolerance epsilon, on the high, low and close of a row
AuditHighBelowLow(r) ==
    ~r.high.nan /\ ~r.low.nan /\ Lt(r.high, Minus(r.low, Epsilon))
AuditCloseOutside(r) ==
    /\ ~r.close.nan /\ ~r.high.nan /\ ~r.low.nan
    /\ (Gt(r.close, Plus(r.high, Epsilon)) \/ Lt(r.close, Minus(r.low, Epsilon)))

\* C17 as the specification words it: the gate applies the tolerance of
\* 1e-4 as the audit does, so when no row of the frame has its high below
\* its low, or its close outside [low, high], by the tolerance or more, the
\* gate reports no high-below-low finding.
C17_GateTolerance ==
    (/\ run.gate.ran
     /\ \A i \in 1..Len(run.raw) :
           LET r == [high |-> run.raw[i].bar.high, low |-> run.raw[i].bar.low,
                     close |-> ToPrice(run.raw[i].m)]
           IN ~AuditHighBelowLow(r) /\ ~AuditCloseOutside(r))
    => [what |-> "high_lt_low", col |-> "high"] \notin run.gate.errors

-----------------------------------------------------------------------------
(* SpecValidate: the four validators of src/src/utils/validators.py as     *)
(* functions of the frame they are handed, whatever its columns            *)

BondPriceMax == 200      \* bond prices above it are logged
YieldMax == 50           \* yields above it are logged

\* validate_company_info
ValidateCompanyInfo(df) ==
    IF "ticker" \notin df.cols THEN Verdict({Finding("missing_columns", "-")}, {})
    ELSE IF Empty(df) THEN Verdict({Finding("empty", "-")}, {})
    ELSE Verdict(NullFindings(df, {"ticker"}) \cup DuplicateFindings(df, {"ticker"}), {})

CryptoRequired == {"symbol", "date", "price"}

\* validate_crypto_prices
ValidateCryptoPrices(df) ==
    IF MissingColumns(df, CryptoRequired) # {}
    THEN Verdict({Finding("missing_columns", "-")}, {})
    ELSE IF Empty(df) THEN Verdict({Finding("empty", "-")}, {})
    ELSE Verdict(NullFindings(df, CryptoRequired)
                 \cup NegativeFindings(df, {"price", "market_cap", "volume"})
                 \cup DuplicateFindings(df, {"symbol", "date"}), {})

BondRequired == {"isin", "date", "price", "yield"}

\* What validate_bond_prices only logs: a price outside 0..200, a negative
\* yield, a yield above 50.
BondWarnings(df) ==
    LET R == {df.rows[i] : i \in 1..Len(df.rows)} IN
    (IF \E r \in R : Lt(r.price, Zero) \/ Gt(r.price, P(BondPriceMax, 0))
     THEN {Finding("range", "price")} ELSE {})
    \cup (IF \E r \in R : Lt(r.yield, Zero) THEN {Finding("negative", "yield")} ELSE {})
    \cup (IF \E r \in R : Gt(r.yield, P(YieldMax, 0)) THEN {Finding("large", "yield")} ELSE {})

\* validate_bond_prices
ValidateBondPrices(df) ==
    IF MissingColumns(df, BondRequired) # {}
    THEN Verdict({Finding("missing_columns", "-")}, {})
    ELSE IF Empty(df) THEN Verdict({Finding("empty", "-")}, {})
    ELSE Verdict(NullFindings(df, BondRequired)
                 \cup NegativeFindings(df, {"duration"})
                 \cup DuplicateFindings(df, {"isin", "date"}), BondWarnings(df))

Validators == {"stock", "crypto", "bond", "company"}

Validate(v, df) ==
    CASE v = "stock"   -> ValidateStockPrices(df)
      [] v = "crypto"  -> ValidateCryptoPrices(df)
      [] v = "bond"    -> ValidateBondPrices(df)
      [] v = "company" -> ValidateCompanyInfo(df)

\* The frames a validator is handed: rows over a grid of values, with all
\* the columns or with some of them left out.
FrameLens == {0, 1, 2}
KeysOrNull == NatKeys \cup {Null}

FrameRows(v) ==
    CASE v = "stock" ->
           [ticker : KeysOrNull, date : Days, open : {P(1, 0)},
            high : {P(1, 0), P(2, 0)}, low : {P(0 - 1, 0), P(1, 0), P(2, 0)},
            close : {P(1, 0), NaNP}, volume : {P(1, 0), P(0 - 1, 0)}]
      [] v = "crypto" ->
           [symbol : KeysOrNull, date : Days, price : {P(1, 0), P(0 - 1, 0), NaNP},
            market_cap : {P(1, 0), P(0 - 1, 0)}]
      [] v = "bond" ->
           [isin : NatKeys, date : Days, price : {P(1, 0), P(BondPriceMax + 1, 0)},
            yield : {P(1, 0), P(0 - 1, 0), NaNP}, duration : {P(1, 0), P(0 - 1, 0)}]
      [] v = "company" ->
           [ticker : KeysOrNull, company_name : Val]

FrameCols(v) ==
    CASE v = "stock" ->
           {StockCols, StockCols \ {"open"}, StockCols \ {"close"}, StockRequired}
      [] v = "crypto" ->
           {CryptoRequired \cup {"market_cap"}, CryptoRequired, {"symbol", "date", "market_cap"}}
      [] v = "bond" ->
           {BondRequired \cup {"duration"}, BondRequired, {"isin", "date", "price"}}
      [] v = "company" ->
           {{"ticker", "company_name"}, {"company_name"}}

Frames(v) ==
    UNION {
      UNION {{[cols |-> C, rows |-> rows] :
                rows \in [1..n -> {[c \in C |-> r[c]] : r \in FrameRows(v)}]} :
             n \in FrameLens} :
      C \in FrameCols(v)}

InitValidate ==
    /\ focus \in Validators
    /\ dim = [k \in Kind |-> {}]
    /\ fact = {}
    /\ call = NoCall
    /\ run = NoRun

\* A validator is called on a frame and returns its verdict.
CallValidator ==
    /\ ~call.active
    /\ \E df \in Frames(focus) :
          call' = [active |-> TRUE, df |-> df, out |-> Validate(focus, df)]
    /\ UNCHANGED <<dim, fact, focus, run>>

NextValidate == CallValidator \/ EndCall

SpecValidate == InitValidate /\ [][NextValidate]_vars

\* C15 as the specification words it: a frame with two rows of the same
\* natural key fails validation with a finding about duplicates.
C15_DuplicatesCritical ==
    LET key == CASE focus = "stock"   -> {"ticker", "date"}
                 [] focus = "crypto"  -> {"symbol", "date"}
                 [] focus = "bond"    -> {"isin", "date"}
                 [] focus = "company" -> {"ticker"}
    IN (/\ call.active
        /\ key \subseteq call.df.cols
        /\ \E i, j \in 1..Len(call.df.rows) :
              i < j /\ \A c \in key : call.df.rows[i][c] = call.df.rows[j][c])
       => /\ ~call.out.valid
          /\ \E f \in call.out.errors : f.what = "duplicates"

\* C15 (duplicate natural keys are critical), amended: a frame that has all
\* the required columns of its validator and two rows of the same natural
\* key fails validation with a finding about duplicates; a frame that lacks
\* a required column fails with the finding about the missing columns alone.
C15_DuplicatesCriticalWhenChecked ==
    LET key == CASE focus = "stock"   -> {"ticker", "date"}
                 [] focus = "crypto"  -> {"symbol", "date"}
                 [] focus = "bond"    -> {"isin", "date"}
                 [] focus = "company" -> {"ticker"}
        required == CASE focus = "stock"   -> {"ticker", "date", "close"}
                      [] focus = "crypto"  -> {"symbol", "date", "price"}
                      [] focus = "bond"    -> {"isin", "date", "price", "yield"}
                      [] focus = "company" -> {"ticker"}
        repeated == /\ key \subseteq call.df.cols
                    /\ \E i, j \in 1..Len(call.df.rows) :
                          i < j /\ \A c \in key : call.df.rows[i][c] = call.df.rows[j][c]
    IN call.active =>
         /\ (repeated /\ required \subseteq call.df.cols)
               => /\ ~call.out.valid
                  /\ \E f \in call.out.errors : f.what = "duplicates"
         /\ ~(required \subseteq call.df.cols)
               => /\ ~call.out.valid
                  /\ call.out.errors = {[what |-> "missing_columns", col |-> "-"]}

\* Two crypto rows of the same symbol and date, nothing else to find.
C15_Witness ==
    /\ call.active /\ focus = "crypto"
    /\ call.df.cols = {"symbol", "date", "price"}
    /\ Len(call.df.rows) = 2
    /\ call.df.rows[1].symbol = "A" /\ call.df.rows[2].symbol = "A"
    /\ call.out = [valid |-> FALSE, errors |-> {[what |-> "duplicates", col |-> "-"]},
                   warnings |-> {}]

\* C16 as the specification words it: validate_stock_prices returns valid
\* with no finding exactly when the frame has the required columns, is not
\* empty, has no null in a required column, no negative price or volume, no
\* row with high < low and no repeated (ticker, date); otherwise it returns
\* invalid with a finding.
C16_StockVerdict ==
    LET df == call.df
        Rows == {df.rows[i] : i \in 1..Len(df.rows)}
        zero == [nan |-> FALSE, usd |-> 0, sub |-> 0]
        required == {"ticker", "date", "close"}
        clean ==
            /\ required \subseteq df.cols
            /\ Len(df.rows) > 0
            /\ \A r \in Rows : r.ticker # Null /\ r.date # Null /\ ~r.close.nan
            /\ \A r \in Rows :
                  \A c \in {"open", "high", "low", "close", "adj_close", "volume"} \cap df.cols :
                     ~Lt(r[c], zero)
            /\ {"high", "low"} \subseteq df.cols => \A r \in Rows : ~Lt(r.high, r.low)
            /\ \A i, j \in 1..Len(df.rows) :
                  (df.rows[i].ticker = df.rows[j].ticker
                   /\ df.rows[i].date = df.rows[j].date) => i = j
    IN (call.active /\ focus = "stock")
       => /\ (call.out.valid /\ call.out.errors = {}) <=> clean
          /\ ~call.out.valid => call.out.errors # {}

\* C16 (stock validation verdict), amended: as above, with high < low
\* counted only when the frame has all four of open, high, low and close.
C16_StockVerdictWhenOHLC ==
    LET df == call.df
        Rows == {df.rows[i] : i \in 1..Len(df.rows)}
        zero == [nan |-> FALSE, usd |-> 0, sub |-> 0]
        required == {"ticker", "date", "close"}
        clean ==
            /\ required \subseteq df.cols
            /\ Len(df.rows) > 0
            /\ \A r \in Rows : r.ticker # Null /\ r.date # Null /\ ~r.close.nan
            /\ \A r \in Rows :
                  \A c \in {"open", "high", "low", "close", "adj_close", "volume"} \cap df.cols :
                     ~Lt(r[c], zero)
            /\ {"open", "high", "low", "close"} \subseteq df.cols
                  => \A r \in Rows : ~Lt(r.high, r.low)
            /\ \A i, j \in 1..Len(df.rows) :
                  (df.rows[i].ticker = df.rows[j].ticker
                   /\ df.rows[i].date = df.rows[j].date) => i = j
    IN (call.active /\ focus = "stock")
       => /\ (call.out.valid /\ call.out.errors = {}) <=> clean
          /\ ~call.out.valid => call.out.errors # {}

\* A frame without the open column whose one row has high < low: valid.
C16_Witness ==
    /\ call.active /\ focus = "stock"
    /\ call.df.cols = {"ticker", "date", "high", "low", "close", "volume"}
    /\ Len(call.df.rows) = 1
    /\ call.df.rows[1].high = P(1, 0) /\ call.df.rows[1].low = P(2, 0)
    /\ call.out = [valid |-> TRUE, errors |-> {}, warnings |-> {}]

-----------------------------------------------------------------------------
(* The order of the steps of a run (Spec)                                  *)

\* C18 as the specification words it: when a run hands a batch to the fact
\* loader, its steps so far are extraction, dimension resolution,
\* transformation, validation, loading, in this order, and the gate has run
\* and has passed the batch.
C18_GateBeforeLoad ==
    (\E i \in 1..Len(run.steps) : run.steps[i] = "load")
    => /\ run.steps = <<"extract", "resolve", "transform", "validate", "load">>
       /\ run.gate.ran /\ run.gate.valid

-----------------------------------------------------------------------------
(* SpecUnified: the orchestrator (src/unified_pipeline.py). A driver's run *)
(* is summed up by the way it ends; what it does to the store is Spec.     *)

Names == <<"stocks", "crypto", "bonds", "economic", "commodities">>
NameSet == {Names[i] : i \in 1..Len(Names)}

\* The ways a call of run_<name> can go: the results of a driver's run, or
\* an exception before the run has started (import, constructor).
Outcomes(name) ==
    IF name = "stocks" THEN {"ok", "no_data", "rejected", "raised", "setup_error"}
    ELSE {"ok", "no_data", "raised", "setup_error"}

\* What the caller of the driver gets: FinancialDataPipeline.run catches
\* every exception and returns True or False; the other drivers return
\* None and raise again what they caught.
Returned(name, outcome) ==
    IF name = "stocks" THEN (IF outcome = "ok" THEN "True" ELSE "False") ELSE "None"
Escapes(name, outcome) ==
    outcome = "setup_error" \/ (name # "stocks" /\ outcome = "raised")

\* run_<name>: skipped when disabled; failed in the except branch, and
\* success otherwise, whatever the driver returned.
Status(name, outcome) ==
    IF Escapes(name, outcome) THEN "failed" ELSE "success"

\* The pipelines after which run stops on a failure
StopChecked == {"stocks", "crypto", "bonds"}

NoUnified ==
    [pc |-> "idle", continue_on_error |-> TRUE, pipelines |-> {},
     enabled |-> {}, pos |-> 1,
     results |-> [n \in NameSet |-> "none"], ended |-> [n \in NameSet |-> "none"]]

InitUnified ==
    /\ focus = "stock"
    /\ dim = [k \in Kind |-> {}]
    /\ fact = {}
    /\ call = NoCall
    /\ run = NoUnified

\* run(pipelines) is called under a configuration.
StartRun ==
    /\ run.pc = "idle"
    /\ \E coe \in BOOLEAN, pipelines \in SUBSET NameSet, enabled \in SUBSET NameSet :
          run' = [NoUnified EXCEPT !.pc = "running", !.continue_on_error = coe,
                                   !.pipelines = pipelines, !.enabled = enabled]
    /\ UNCHANGED <<dim, fact, focus, call>>

\* The block of run for one pipeline: if it was asked for, run_<name>
\* records its status, and run returns at once after a checked failure.
RunPipeline(name) ==
    /\ run.pc = "running"
    /\ run.pos <= Len(Names) /\ Names[run.pos] = name
    /\ IF name \notin run.pipelines
       THEN run' = [run EXCEPT !.pos = run.pos + 1]
       ELSE IF name \notin run.enabled
       THEN run' = [run EXCEPT !.pos = run.pos + 1, !.results[name] = "skipped"]
       ELSE \E outcome \in Outcomes(name) :
              LET status == Status(name, outcome)
                  stop   == /\ name \in StopChecked
                            /\ status = "failed" /\ ~run.continue_on_error
              IN run' = [run EXCEPT !.pos = run.pos + 1,
                                    !.results[name] = status,
                                    !.ended[name] = outcome,
                                    !.pc = IF stop THEN "stopped" ELSE "running"]
    /\ UNCHANGED <<dim, fact, focus, call>>

RunStocks == RunPipeline("stocks")
RunCrypto == RunPipeline("crypto")
RunBonds == RunPipeline("bonds")
RunEconomic == RunPipeline("economic")
RunCommodities == RunPipeline("commodities")

\* The summary at the end of run
Finish ==
    /\ run.pc = "running" /\ run.pos > Len(Names)
    /\ run' = [run EXCEPT !.pc = "finished"]
    /\ UNCHANGED <<dim, fact, focus, call>>

NextUnified ==
    \/ StartRun \/ RunStocks \/ RunCrypto \/ RunBonds \/ RunEconomic
    \/ RunCommodities \/ Finish

SpecUnified == InitUnified /\ [][NextUnified]_vars

\* C19 as the specification words it: when the stock run has ended in
\* failure (the gate rejected the batch, or the load raised), the run
\* returned False to its caller and the orchestrator has recorded the stocks
\* pipeline as failed.
C19_FailureSurfaced ==
    run.ended["stocks"] \in {"rejected", "raised"}
    => /\ Returned("stocks", run.ended["stocks"]) = "False"
       /\ run.results["stocks"] = "failed"

\* C20 as the specification words it: with continue_on_error false, once a
\* pipeline is recorded as failed no later pipeline of the order is started.
C20_StopOnError ==
    ~run.continue_on_error
    => \A i, j \in 1..Len(Names) :
          (i < j /\ run.results[Names[i]] = "failed")
          => run.ended[Names[j]] = "none"

-----------------------------------------------------------------------------
(* SpecSEC: SECFilingLoader.load_sec_filings (src/src/loaders/sec_loader.py) *)
(* called again and again on one store; fact is the filing table            *)

Accessions == {"a1", "a2"}
FilingType == "10-K"
SecLens == {0, 1, 2}

\* The rows of filings_df: accession number, ticker, filing type, filing
\* date (always an ISO string) and the filing's text
SecRows == [acc : Accessions, nk : NatKeys, ft : {FilingType}, day : Days, txt : Val]
SecSeqs == UNION {[1..n -> SecRows] : n \in SecLens}

\* The store the engine is bound to: DATABASE_URL names either one
Backends == {"sqlite", "postgresql"}

\* The mappings the caller hands over. The date mapping is keyed by ISO
\* strings, or by datetime.date as load_dates builds it.
CompanyMapping == [k \in NatKeys |-> IF k = "A" THEN 1 ELSE 2]
FilingTypeMapping == [k \in {FilingType} |-> 1]
DateMapping == [k \in Days |-> 1]
DateKeys == {"str", "date"}

\* date_mapping.get(filing_date): a string equals no datetime.date key
SecDateJoin(keys, dmap, day) == IF keys = "str" THEN MapKey(dmap, day) ELSE NaN

\* The loop over filings_df: a row with a missing foreign key is skipped.
SecRecords(df, keys) ==
    LET Rec(i) == [c |-> MapKey(CompanyMapping, df[i].nk),
                   t |-> MapKey(FilingTypeMapping, df[i].ft),
                   d |-> SecDateJoin(keys, DateMapping, df[i].day),
                   s |-> 1, acc |-> df[i].acc, txt |-> df[i].txt]
        Keep(i) == Rec(i).c # NaN /\ Rec(i).d # NaN /\ Rec(i).t # NaN
        F[i \in 0..Len(df)] ==
            IF i = 0 THEN <<>>
            ELSE IF Keep(i) THEN Append(F[i - 1], Rec(i)) ELSE F[i - 1]
    IN F[Len(df)]

\* ON CONFLICT (accession_number): the stored row the record collides with
NoConflict(table, rec) == {}
AccConflict(table, rec) == {r \in table : r.acc = rec.acc}

\* One row of the INSERT ... ON CONFLICT DO UPDATE statement: the colliding
\* row takes the new text; a record that collides on (company, filing type,
\* date) only breaks uix_filing_company_type_date; any other is inserted.
UpsertRow(st, rec) ==
    LET hit == AccConflict(st.table, rec) IN
    IF ~st.ok THEN st
    ELSE IF hit # {}
    THEN [st EXCEPT !.table = (st.table \ hit) \cup {[r EXCEPT !.txt = rec.txt] : r \in hit}]
    ELSE IF \E r \in st.table : r.c = rec.c /\ r.t = rec.t /\ r.d = rec.d
    THEN [st EXCEPT !.ok = FALSE]
    ELSE [st EXCEPT !.table = st.table \cup
                       {[id |-> NextId(st.table), c |-> rec.c, t |-> rec.t, d |-> rec.d,
                         s |-> rec.s, acc |-> rec.acc, txt |-> rec.txt]}]

RECURSIVE UpsertRows(_, _, _, _)
UpsertRows(st, recs, i, last) ==
    IF i > last THEN st ELSE UpsertRows(UpsertRow(st, recs[i]), recs, i + 1, last)

\* session.execute(stmt) for the records i..last. PostgreSQL refuses a
\* statement that proposes one accession number twice; SQLite takes the
\* rows one after the other. rowcount is the number of rows the statement
\* inserted or updated.
ExecuteUpsert(backend, table, recs, i, last, dbFault) ==
    LET twice == \E j, k \in i..last : j < k /\ recs[j].acc = recs[k].acc
        st    == UpsertRows([ok |-> TRUE, table |-> table], recs, i, last)
    IN IF dbFault \/ (backend = "postgresql" /\ twice) \/ ~st.ok
       THEN [ok |-> FALSE, table |-> table, rowcount |-> 0]
       ELSE [ok |-> TRUE, table |-> st.table, rowcount |-> last - i + 1]

\* The batch loop: execute, add rowcount, commit; on an exception log,
\* roll back and go on with the next batch.
RECURSIVE LoadBatches(_, _, _, _, _, _)
LoadBatches(backend, st, recs, bs, i, faults) ==
    IF i > Len(recs) THEN st
    ELSE LET last == Min(i + bs - 1, Len(recs))
             res  == ExecuteUpsert(backend, st.table, recs, i, last, i \in faults)
         IN LoadBatches(backend,
                        [table     |-> res.table,
                         new_count |-> st.new_count + res.rowcount,
                         failed    |-> IF res.ok THEN st.failed ELSE st.failed \cup {i},
                         executed  |-> st.executed \cup {i}],
                        recs, bs, last + 1, faults)

InitSEC ==
    /\ focus = "sec"
    /\ dim = [k \in Kind |-> {}]
    /\ fact = {}
    /\ call = NoCall
    /\ run = NoRun

\* One call of load_sec_filings. It returns new_count; no exception of a
\* batch leaves it.
LoadSecFilings ==
    /\ ~call.active
    /\ \E df \in SecSeqs, keys \in DateKeys, bs \in BatchSizes, backend \in Backends,
          faults \in SUBSET (1..2) :
          LET recs == SecRecords(df, keys)
              st   == LoadBatches(backend,
                                  [table |-> fact, new_count |-> 0, failed |-> {},
                                   executed |-> {}],
                                  recs, bs, 1, faults)
          IN /\ fact' = st.table
             /\ call' = [active |-> TRUE, before |-> fact, df |-> df, recs |-> recs,
                         bs |-> bs, backend |-> backend,
                         returned |-> st.new_count, raised |-> FALSE,
                         failed |-> st.failed, executed |-> st.executed]
    /\ UNCHANGED <<dim, focus, run>>

NextSEC == LoadSecFilings \/ EndCall

SpecSEC == InitSEC /\ [][NextSEC]_vars

\* C21 (filing uniqueness): after any sequence of filing loads, reloads
\* included, the filing table holds at most one row per accession number.
C21_FilingUniqueness ==
    \A r1, r2 \in fact : r1.acc = r2.acc => r1 = r2

\* A reload: the call handed over a filing whose accession number was
\* stored already, with a new text, and the one stored row now has that text.
C21_Witness ==
    /\ call.active /\ Len(call.recs) = 1
    /\ \E r \in call.before : r.acc = call.recs[1].acc /\ r.txt # call.recs[1].txt
    /\ \E r \in fact : r.acc = call.recs[1].acc /\ r.txt = call.recs[1].txt
    /\ Cardinality(fact) = Cardinality(call.before)

\* C22 as the specification words it: load_sec_filings returns the number
\* of newly inserted filings, and a reload of filings that are all stored
\* already returns 0 and leaves the number of filing rows unchanged.
C22_ReloadCount ==
    call.active
    => /\ call.returned = Cardinality(fact) - Cardinality(call.before)
       /\ (\A i \in 1..Len(call.recs) : \E r \in call.before : r.acc = call.recs[i].acc)
             => (call.returned = 0 /\ Cardinality(fact) = Cardinality(call.before))

\* C23 as the specification words it: when the write of a batch of filings
\* fails, the batch is rolled back, the error leaves load_sec_filings and
\* no later batch is executed.
C23_ErrorsPropagate ==
    (call.active /\ call.failed # {})
    => /\ call.raised
       /\ \A i \in call.executed : \A j \in call.failed : i <= j

-----------------------------------------------------------------------------
(* SpecDate: DataTransformer.transform_date_dimension                      *)
(* (src/src/transformers/data_transformer.py:12-45)                        *)

Years == {1900, 2000, 2023, 2024}
Malformed == [year |-> 0, month |-> 0, day |-> 0]     \* a value that is no date

IsLeap(y) == (y % 4 = 0 /\ y % 100 # 0) \/ y % 400 = 0

\* calendar.monthrange(year, month)[1]
MonthRange(y, m) ==
    IF m = 2 THEN (IF IsLeap(y) THEN 29 ELSE 28)
    ELSE IF m \in {4, 6, 9, 11} THEN 30 ELSE 31

Dates ==
    {[year |-> y, month |-> m, day |-> d] :
       y \in Years, m \in 1..12, d \in 1..31} \ {dt \in [year : Years, month : 1..12, day : 29..31] :
                                                   dt.day > MonthRange(dt.year, dt.month)}

\* The proleptic Gregorian ordinal of a date, day 1 being 0001-01-01
RECURSIVE DaysBeforeMonth(_, _)
DaysBeforeMonth(y, m) == IF m = 1 THEN 0 ELSE DaysBeforeMonth(y, m - 1) + MonthRange(y, m - 1)
ToOrdinal(dt) ==
    LET y == dt.year - 1
    IN 365 * y + y \div 4 - y \div 100 + y \div 400 + DaysBeforeMonth(dt.year, dt.month) + dt.day

\* Timestamp.dayofweek: Monday is 0
DayOfWeek(dt) == (ToOrdinal(dt) + 6) % 7

QuarterOfNext(month) == month \div 3 + 1
Quarter(month) == (month - 1) \div 3 + 1

\* The dictionary the loop appends for one date (week and day_name left out)
DateAttributes(dt) ==
    [date |-> dt, year |-> dt.year,
     quarter |-> Quarter(dt.month),
     month |-> dt.month, day |-> dt.day,
     day_of_week |-> DayOfWeek(dt),
     is_weekend |-> IF DayOfWeek(dt) >= 5 THEN 1 ELSE 0,
     is_quarter_end |-> IF dt.month \in {3, 6, 9, 12}
                           /\ dt.day = MonthRange(dt.year, dt.month) THEN 1 ELSE 0,
     is_year_end |-> IF dt.month = 12 /\ dt.day = 31 THEN 1 ELSE 0]

\* pd.to_datetime(dates).unique(): the distinct values in the order of their
\* first appearance
Unique(dates) ==
    LET F[i \in 0..Len(dates)] ==
          IF i = 0 THEN <<>>
          ELSE IF \E j \in 1..(i - 1) : dates[j] = dates[i] THEN F[i - 1]
               ELSE Append(F[i - 1], dates[i])
    IN F[Len(dates)]

\* transform_date_dimension: pd.to_datetime raises on a value it cannot
\* parse, and nothing in the builder catches it.
TransformDateDimension(dates) ==
    IF \E i \in 1..Len(dates) : dates[i] = Malformed
    THEN [raised |-> TRUE, rows |-> <<>>]
    ELSE [raised |-> FALSE,
          rows |-> [i \in 1..Len(Unique(dates)) |-> DateAttributes(Unique(dates)[i])]]

\* The series handed to the builder: a date, alone or next to one other value
DateSeries ==
    {<<dt>> : dt \in Dates}
    \cup {<<dt, other>> : dt \in Dates,
                          other \in {Malformed, [year |-> 2024, month |-> 1, day |-> 1]}}
    \cup {<<Malformed, dt>> : dt \in {[year |-> 2024, month |-> 1, day |-> 2]}}
    \cup {<<dt, dt>> : dt \in {[year |-> 2024, month |-> 1, day |-> 2]}}

InitDate ==
    /\ focus = "date"
    /\ dim = [k \in Kind |-> {}]
    /\ fact = {}
    /\ call = NoCall
    /\ run = NoRun

BuildDates ==
    /\ ~call.active
    /\ \E dates \in DateSeries :
          call' = [active |-> TRUE, dates |-> dates, out |-> TransformDateDimension(dates)]
    /\ UNCHANGED <<dim, fact, focus, run>>

NextDate == BuildDates \/ EndCall

SpecDate == InitDate /\ [][NextDate]_vars

\* C24 (date attribute derivation): every candidate the builder returns has
\* quarter = ((month - 1) div 3) + 1, day_of_week counted from Monday = 0
\* (checked against the days elapsed since Monday 1900-01-01), is_weekend
\* exactly for Saturday and Sunday, is_quarter_end exactly on 31 March,
\* 30 June, 30 September and 31 December, is_year_end exactly on
\* 31 December, and is_year_end implies is_quarter_end.
C24_DateAttributes ==
    call.active =>
      \A i \in 1..Len(call.out.rows) :
         LET a == call.out.rows[i]
             y == a.date.year
             m == a.date.month
             d == a.date.day
             leaps == ((y - 1) \div 4 - (y - 1) \div 100 + (y - 1) \div 400) - 460
             cum == <<0, 31, 59, 90, 120, 151, 181, 212, 243, 273, 304, 334>>
             leapday == IF m > 2 /\ ((y % 4 = 0 /\ y % 100 # 0) \/ y % 400 = 0) THEN 1 ELSE 0
             elapsed == 365 * (y - 1900) + leaps + cum[m] + leapday + (d - 1)
         IN /\ a.quarter = (IF m <= 3 THEN 1 ELSE IF m <= 6 THEN 2 ELSE IF m <= 9 THEN 3 ELSE 4)
            /\ a.quarter = ((m - 1) \div 3) + 1
            /\ a.day_of_week = elapsed % 7
            /\ a.is_weekend = 1 <=> a.day_of_week \in {5, 6}
            /\ a.is_quarter_end = 1 <=> <<m, d>> \in {<<3, 31>>, <<6, 30>>, <<9, 30>>, <<12, 31>>}
            /\ a.is_year_end = 1 <=> (m = 12 /\ d = 31)
            /\ a.is_year_end = 1 => a.is_quarter_end = 1
            /\ a.is_weekend \in {0, 1} /\ a.is_quarter_end \in {0, 1} /\ a.is_year_end \in {0, 1}

\* 2024-01-01 and 2024-06-30: a Monday in the first quarter, and a Sunday
\* that ends the second quarter.
C24_Witness ==
    /\ call.active /\ Len(call.out.rows) = 2
    /\ call.out.rows[1].date = [year |-> 2024, month |-> 6, day |-> 30]
    /\ call.out.rows[1].day_of_week = 6 /\ call.out.rows[1].is_weekend = 1
    /\ call.out.rows[1].is_quarter_end = 1 /\ call.out.rows[1].is_year_end = 0
    /\ call.out.rows[1].quarter = 2
    /\ call.out.rows[2].date = [year |-> 2024, month |-> 1, day |-> 1]
    /\ call.out.rows[2].day_of_week = 0 /\ call.out.rows[2].is_weekend = 0
    /\ call.out.rows[2].is_quarter_end = 0 /\ call.out.rows[2].quarter = 1

\* C25 as the specification words it: with a malformed value in its input
\* the builder does not raise and returns a candidate for every well-formed
\* date of the input.
C25_MalformedRejectedSingly ==
    (call.active /\ \E i \in 1..Len(call.dates) : call.dates[i] = [year |-> 0, month |-> 0, day |-> 0])
    => /\ ~call.out.raised
       /\ \A i \in 1..Len(call.dates) :
             call.dates[i] # [year |-> 0, month |-> 0, day |-> 0]
             => \E j \in 1..Len(call.out.rows) : call.out.rows[j].date = call.dates[i]

-----------------------------------------------------------------------------
(* SpecRace: two runs of one driver against the shared store. Each run has
   its own session; a statement of a session (the SELECT of a lookup, the
   flush and COMMIT of db.commit()) is one step, and the steps of the two
   runs interleave freely. A lookup sees the committed rows only. *)

Procs == {1, 2}
RaceClass == {"stock", "crypto"}
RaceRows == {<<r>> : r \in {x \in RawRows : x.m # NaN}}

NoProc ==
    [pc |-> "lookup", raw |-> <<>>, k |-> 1,
     maps |-> [kd \in Kind |-> EmptyMap],
     pend |-> "none", hit |-> 0, missed |-> {},
     st |-> [upd |-> EmptyMap, new |-> <<>>, n |-> 0, log |-> <<>>],
     result |-> "none", at |-> "none"]

\* The resolver calls of a run, each with the one candidate of its one row.
RaceSteps(p) == DimSteps(focus, run[p].raw, <<>>)

InitRace ==
    /\ focus \in RaceClass
    /\ dim = [kd \in Kind |-> {}]
    /\ fact = {}
    /\ call = NoCall
    /\ run \in [Procs -> {[NoProc EXCEPT !.raw = raw] : raw \in RaceRows}]

\* The SELECT of a resolver's loop: the row is found and will be refreshed, or
\* it is absent and a new one is added to the session. load_or_get_data_source
\* and load_dates follow the same sequence and write nothing for a found row.
RaceLookup(p) ==
    /\ run[p].pc = "lookup"
    /\ LET step  == RaceSteps(p)[run[p].k]
           found == Lookup(dim[step.kind], step.cands[1].nk)
       IN run' = [run EXCEPT ![p] =
                    IF found # {}
                    THEN [@ EXCEPT !.pc = "commit", !.pend = "update",
                                   !.hit = (CHOOSE r \in found : TRUE).id]
                    ELSE [@ EXCEPT !.pc = "commit", !.pend = "insert",
                                   !.missed = @ \cup {step.kind}]]
    /\ UNCHANGED <<dim, fact, focus, call>>

\* db.commit() after the lookup: the refreshed row is written, or the added row
\* is inserted under the table's unique constraint; a rejected insert raises,
\* which no resolver catches, and ends the run. Then refresh() reads the id.
RaceCommit(p) ==
    /\ run[p].pc = "commit"
    /\ LET step == RaceSteps(p)[run[p].k]
           kind == step.kind
           cand == step.cands[1]
           next == IF run[p].k = Len(RaceSteps(p)) THEN "stage" ELSE "lookup"
           resolved(id) == [run EXCEPT ![p] =
                              [@ EXCEPT !.pc = next, !.k = @ + 1, !.pend = "none",
                                        !.hit = 0,
                                        !.maps = [@ EXCEPT ![kind] = Put(@, cand.nk, id)]]]
       IN IF run[p].pend = "update"
          THEN LET r  == CHOOSE r \in dim[kind] : r.id = run[p].hit
                   r2 == [r EXCEPT !.attrs = [c \in Cols(kind) |->
                            IF c \in UpdCols(kind) THEN cand.attrs[c] ELSE r.attrs[c]]]
               IN /\ dim' = [dim EXCEPT ![kind] = (@ \ {r}) \cup {r2}]
                  /\ run' = resolved(r.id)
          ELSE LET r == [id |-> NextId(dim[kind]), nk |-> cand.nk, attrs |-> cand.attrs]
               IN IF DimConstraintOk(dim[kind], r)
                  THEN /\ dim' = [dim EXCEPT ![kind] = @ \cup {r}]
                       /\ run' = resolved(r.id)
                  ELSE /\ dim' = dim
                       /\ run' = [run EXCEPT ![p] =
                                    [@ EXCEPT !.pc = "done", !.result = "raised",
                                              !.at = kind, !.pend = "none"]]
    /\ UNCHANGED <<fact, focus, call>>

\* The transformer joins the maps onto the row; the fact loader looks the
\* composite key up and modifies the found row or adds a new one.
RaceStage(p) ==
    /\ run[p].pc = "stage"
    /\ LET rep   == CHOOSE x \in Reps(focus) : TRUE
           facts == TransformFacts(focus, run[p].raw, rep,
                                   run[p].maps[EntityKind(focus)], run[p].maps["date"],
                                   run[p].maps["source"][SourceName(focus)])
           st    == StageRows(focus, fact, NoProc.st, facts, 1, Len(facts))
       IN run' = [run EXCEPT ![p] =
                    [@ EXCEPT !.pc = "fcommit", !.st = st,
                              !.missed = IF st.new # <<>> THEN @ \cup {"fact"} ELSE @]]
    /\ UNCHANGED <<dim, fact, focus, call>>

\* db.commit() of the batch, which the fact loader does not guard.
RaceFactCommit(p) ==
    /\ run[p].pc = "fcommit"
    /\ LET flushed == Flushed(fact, run[p].st)
           ok      == FactConstraintOk(focus, dim, flushed)
       IN /\ fact' = Commit(ok, fact, flushed)
          /\ run' = [run EXCEPT ![p] =
                       IF ok THEN [@ EXCEPT !.pc = "done", !.result = "ok"]
                       ELSE [@ EXCEPT !.pc = "done", !.result = "raised", !.at = "fact"]]
    /\ UNCHANGED <<dim, focus, call>>

NextRace ==
    \E p \in Procs : RaceLookup(p) \/ RaceCommit(p) \/ RaceStage(p) \/ RaceFactCommit(p)

SpecRace == InitRace /\ [][NextRace]_vars

\* C27 (lookup-then-insert race): a lookup decides on the committed rows
\* alone: it misses, and the run goes on to insert, exactly when no committed
\* row has the key, whatever the other run has pending. So two runs resolving
\* the same new key can both miss and both attempt the insert.
C27_LookupThenInsertRace ==
    [][\A p \in Procs :
          (run[p].pc = "lookup" /\ run'[p].pc = "commit") =>
             LET step == DimSteps(focus, run[p].raw, <<>>)[run[p].k]
             IN (run'[p].pend = "insert")
                <=> (\A r \in dim[step.kind] : r.nk # step.cands[1].nk)]_vars

\* Both lookups of the same new entity key have missed and both runs are
\* about to insert a row for it.
C27_Witness ==
    /\ run[1].pc = "commit" /\ run[2].pc = "commit"
    /\ run[1].pend = "insert" /\ run[2].pend = "insert"
    /\ run[1].k = run[2].k
    /\ RaceSteps(1)[run[1].k].kind = EntityKind(focus)
    /\ run[1].raw[1].nk = run[2].raw[1].nk
    /\ \A r \in dim[EntityKind(focus)] : r.nk # run[1].raw[1].nk

\* C28 (uniqueness under concurrency): in every interleaving of the two runs
\* no dimension table holds two rows of one natural key and the fact table
\* holds no two rows of one composite key. Of two runs whose lookups both
\* missed the same key, the one that commits second is rejected: it ends
\* raised at that stage and has no id for the key, while the first holds the
\* id of the one stored row.
C28_UniquenessUnderConcurrency ==
    LET key(p, kind) == IF kind = "source" THEN SourceName(focus)
                        ELSE IF kind = "date" THEN run[p].raw[1].day
                        ELSE run[p].raw[1].nk
        has(p, kind)  == key(p, kind) \in DOMAIN run[p].maps[kind]
        lost(p, kind) == run[p].result = "raised" /\ run[p].at = kind
    IN /\ \A kind \in Kind : \A r1, r2 \in dim[kind] : r1.nk = r2.nk => r1 = r2
       /\ \A r1, r2 \in fact :
             (r1.e = r2.e /\ r1.d = r2.d /\ r1.s = r2.s) => r1 = r2
       /\ \A p \in Procs :
             run[p].result = "raised" =>
                /\ run[p].pc = "done" /\ run[p].at \in run[p].missed
                /\ run[p].at \in Kind => ~has(p, run[p].at)
       /\ \A p, q \in Procs : \A kind \in Kind :
             (/\ p # q /\ kind \in run[p].missed \cap run[q].missed
              /\ key(p, kind) = key(q, kind)
              /\ has(p, kind) \/ lost(p, kind)
              /\ has(q, kind) \/ lost(q, kind))
             => /\ lost(p, kind) # lost(q, kind)
                /\ has(p, kind) =>
                      \E r \in dim[kind] :
                         r.nk = key(p, kind) /\ r.id = run[p].maps[kind][key(p, kind)]
       /\ \A p, q \in Procs :
             (/\ p # q /\ "fact" \in run[p].missed \cap run[q].missed
              /\ run[p].raw[1].nk = run[q].raw[1].nk
              /\ run[p].pc = "done" /\ run[q].pc = "done")
             => /\ lost(p, "fact") # lost(q, "fact")
                /\ Cardinality(fact) = 1

\* Two runs raced to create the same entity key: one holds the id of the one
\* stored row, the other was rejected at its commit and ended raised.
C28_Witness ==
    \E p, q \in Procs :
       /\ run[p].result = "raised" /\ run[p].at = EntityKind(focus)
       /\ EntityKind(focus) \in run[q].missed
       /\ run[q].raw[1].nk \in DOMAIN run[q].maps[EntityKind(focus)]
       /\ Cardinality(dim[EntityKind(focus)]) = 1

====
